---- MODULE Spec2Model ----
(***************************************************************************)
(* LineClient (packages/messaging-api-line/src/LineClient.ts): the         *)
(* credential override, the send dispatcher, the member-id accumulation    *)
(* loop and the error normalisation, as a state machine over the public    *)
(* method calls in progress on one client instance.                        *)
(*                                                                         *)
(* JavaScript values are written as follows.  An optional value (a value   *)
(* that may be undefined) is a tuple: << >> is undefined, <<v>> is v.       *)
(* Strings are TLA+ strings and template literals are \o concatenations.   *)
(* null is the record Null.  A header set is a function from header names. *)
(***************************************************************************)
EXTENDS Integers, Sequences, FiniteSets, TLC

VARIABLES
    _accessToken,     \* this._accessToken
    _channelSecret,   \* this._channelSecret
    _onRequest,       \* this._onRequest: the request observer
    _axios,           \* this._axios: the instance's defaults (baseURL, headers)
    calls             \* the public-method calls in progress, by call slot

instance == <<_accessToken, _channelSecret, _onRequest, _axios>>
vars == <<_accessToken, _channelSecret, _onRequest, _axios, calls>>

----------------------------------------------------------------------------
(* Bounds of the model.                                                    *)

\* call slots of the concurrent specification
MaxInFlight == 2
\* longest message list handed to reply / push / multicast
MaxMessages == 2
\* longest details list of an API error body
MaxDetails == 2
\* most pages one accumulation is served
MaxPages == 3

----------------------------------------------------------------------------
(* Values.                                                                 *)

Undefined == << >>
Some(v) == <<v>>
Null == [type |-> "null"]
\* '' as the data of a response: a body that is there and is empty
EmptyString == [type |-> "string", value |-> ""]

\* `${v}` for an optional string
Template(v) == IF v = Undefined THEN "undefined" ELSE v[1]

\* JavaScript truthiness of an optional string
Truthy(v) == v # Undefined /\ v[1] # ""

\* sequences over S of length at most n
RECURSIVE SeqsUpTo(_, _)
SeqsUpTo(S, n) ==
    IF n = 0 THEN {<< >>}
    ELSE LET shorter == SeqsUpTo(S, n - 1)
         IN  shorter \cup {Append(s, x) : s \in {t \in shorter : Len(t) = n - 1}, x \in S}

Tokens == {"tokenA", "tokenB"}
\* the accessToken option of a call: absent, the empty string, or a token
AccessTokenOptions == {Undefined, Some("")} \cup {Some(t) : t \in Tokens}
Options == {[accessToken |-> o] : o \in AccessTokenOptions}

Ids == {"id1", "id2"}
Messages == {"msg1", "msg2"}
MessageLists == SeqsUpTo(Messages, MaxMessages)
\* the next field of a page: absent, the empty string, or a cursor
NextCursors == {Undefined, Some(""), Some("tok1"), Some("tok2")}
\* the memberIds field of a page
PageLists == {<< >>, <<"u1">>, <<"u2", "u1">>}
Pages == {[memberIds |-> ids, next |-> n] : ids \in PageLists, n \in NextCursors}
\* image buffers, named by their leading bytes
Buffers == {"PNG-bytes", "JPEG-bytes", "GIF-bytes", "text-bytes"}

----------------------------------------------------------------------------
(* Error normalisation.                                                    *)

\* new AxiosError(message, err): the typed error, with the response of the
\* failure it wraps and the failure itself
AxiosError(message, err) ==
    [name |-> "AxiosError", message |-> message, response |-> err.response,
     original |-> err]

\* details.forEach(detail => msg += `\n- ${detail.property}: ${detail.message}`)
RECURSIVE AppendDetails(_, _)
AppendDetails(msg, details) ==
    IF details = << >> THEN msg
    ELSE AppendDetails(
            msg \o "\n- " \o Template(Head(details).property) \o ": "
                \o Template(Head(details).message),
            Tail(details))

\* handleError never returns: its value here is the error it throws
handleErrorNoPrefix(err) ==
    IF /\ err.response # Undefined
       /\ err.response[1].data # Undefined
       /\ err.response[1].data[1] # EmptyString
    THEN LET data == err.response[1].data[1]
             msg == Template(data.message)
         IN  AxiosError(
                IF data.details # Undefined /\ Len(data.details[1]) > 0
                THEN AppendDetails(msg, data.details[1])
                ELSE msg,
                err)
    ELSE AxiosError(err.message, err)

\* a normalisation that puts the prefix on the raw failure message too
handleErrorPrefixAlways(err) ==
    IF /\ err.response # Undefined
       /\ err.response[1].data # Undefined
       /\ err.response[1].data[1] # EmptyString
    THEN LET data == err.response[1].data[1]
             msg == "LINE API - " \o Template(data.message)
         IN  AxiosError(
                IF data.details # Undefined /\ Len(data.details[1]) > 0
                THEN AppendDetails(msg, data.details[1])
                ELSE msg,
                err)
    ELSE AxiosError("LINE API - " \o err.message, err)

\* a normalisation that builds the API message around the failure's own
\* message instead of the message of the response body
handleErrorWrappingMessage(err) ==
    IF /\ err.response # Undefined
       /\ err.response[1].data # Undefined
       /\ err.response[1].data[1] # EmptyString
    THEN LET data == err.response[1].data[1]
             msg == "LINE API - " \o err.message
         IN  AxiosError(
                IF data.details # Undefined /\ Len(data.details[1]) > 0
                THEN AppendDetails(msg, data.details[1])
                ELSE msg,
                err)
    ELSE AxiosError(err.message, err)

\* a normalisation that takes the structured branch only for a body that
\* has a message
handleErrorRequiringMessage(err) ==
    IF /\ err.response # Undefined
       /\ err.response[1].data # Undefined
       /\ err.response[1].data[1] # EmptyString
       /\ err.response[1].data[1].message # Undefined
    THEN LET data == err.response[1].data[1]
             msg == "LINE API - " \o Template(data.message)
         IN  AxiosError(
                IF data.details # Undefined /\ Len(data.details[1]) > 0
                THEN AppendDetails(msg, data.details[1])
                ELSE msg,
                err)
    ELSE AxiosError(err.message, err)

handleError(err) ==
    IF /\ err.response # Undefined
       /\ err.response[1].data # Undefined
       /\ err.response[1].data[1] # EmptyString
    THEN LET data == err.response[1].data[1]
             msg == "LINE API - " \o Template(data.message)
         IN  AxiosError(
                IF data.details # Undefined /\ Len(data.details[1]) > 0
                THEN AppendDetails(msg, data.details[1])
                ELSE msg,
                err)
    ELSE AxiosError(err.message, err)

----------------------------------------------------------------------------
(* The request each endpoint method hands to this._axios, and the promise  *)
(* chain it hangs on the request.                                          *)

\* headers: { Authorization: `Bearer ${token}` }
AuthorizationHeader(token) == "Authorization" :> ("Bearer " \o Template(token))
NoHeaders == << >>

\* customAccessToken === undefined ? undefined
\*   : { headers: { Authorization: `Bearer ${customAccessToken}` } }
AuthConfig(customAccessToken) ==
    IF customAccessToken = Undefined THEN Undefined
    ELSE Some([headers |-> AuthorizationHeader(customAccessToken),
               responseType |-> Undefined])

\* what a method returns before the network answers: the axios call it made
\* and the handlers it chained
Pending(verb, url, data, config, onFulfilled, chain) ==
    [thrown |-> Undefined, verb |-> verb, url |-> url, data |-> data,
     config |-> config, onFulfilled |-> onFulfilled, chain |-> chain]

\* a method that throws before it makes any axios call
Thrown(error) ==
    [thrown |-> Some(error), verb |-> "", url |-> "", data |-> Undefined,
     config |-> Undefined, onFulfilled |-> "", chain |-> ""]

ThenHandleError == ".then(f, handleError)"
ThenCatch == ".then(f).catch(notFound)"
ThenHandleErrorCatch == ".then(f, handleError).catch(notFound)"

replyRawBody(body, options) ==
    Pending("post", "/v2/bot/message/reply", Some(body),
            AuthConfig(options.accessToken), "res.data", ThenHandleError)

reply(replyToken, messages, options) ==
    replyRawBody([replyToken |-> replyToken, messages |-> messages], options)

pushRawBody(body, options) ==
    Pending("post", "/v2/bot/message/push", Some(body),
            AuthConfig(options.accessToken), "res.data", ThenHandleError)

push(to, messages, options) ==
    pushRawBody([to |-> to, messages |-> messages], options)

multicastRawBody(body, options) ==
    Pending("post", "/v2/bot/message/multicast", Some(body),
            AuthConfig(options.accessToken), "res.data", ThenHandleError)

multicast(to, messages, options) ==
    multicastRawBody([to |-> to, messages |-> messages], options)

\* a dispatcher that sends every tag but 'multicast' to push
_sendPushByDefault(type, target, messages, options) ==
    IF type = Some("multicast") THEN multicast(target, messages, options)
    ELSE push(target, messages, options)

\* a dispatcher that refuses a tag that is none of the three modes
_sendRejectingUnknown(type, target, messages, options) ==
    IF type = Some("push") THEN push(target, messages, options)
    ELSE IF type = Some("multicast") THEN multicast(target, messages, options)
    ELSE IF type = Some("reply") THEN reply(target, messages, options)
    ELSE Thrown([name |-> "TypeError", message |-> "unknown send type",
                 response |-> Undefined])

_send(type, target, messages, options) ==
    IF type = Some("push") THEN push(target, messages, options)
    ELSE IF type = Some("multicast") THEN multicast(target, messages, options)
    ELSE reply(target, messages, options)

retrieveMessageContent(messageId, options) ==
    Pending("get", "/v2/bot/message/" \o messageId \o "/content", Undefined,
            IF options.accessToken = Undefined THEN Undefined
            ELSE Some([headers |-> AuthorizationHeader(options.accessToken),
                       responseType |-> Some("arraybuffer")]),
            "Buffer.from(res.data)", ThenHandleError)

getUserProfile(userId, options) ==
    Pending("get", "/v2/bot/profile/" \o userId, Undefined,
            AuthConfig(options.accessToken), "res.data", ThenHandleErrorCatch)

getGroupMemberProfile(groupId, userId, options) ==
    Pending("get", "/v2/bot/group/" \o groupId \o "/member/" \o userId, Undefined,
            AuthConfig(options.accessToken), "res.data", ThenHandleError)

getRoomMemberProfile(roomId, userId, options) ==
    Pending("get", "/v2/bot/room/" \o roomId \o "/member/" \o userId, Undefined,
            AuthConfig(options.accessToken), "res.data", ThenHandleError)

\* `${start ? `?start=${start}` : ''}`
StartQuery(start) == IF Truthy(start) THEN "?start=" \o start[1] ELSE ""

getGroupMemberIds(groupId, start, options) ==
    Pending("get", "/v2/bot/group/" \o groupId \o "/members/ids" \o StartQuery(start),
            Undefined, AuthConfig(options.accessToken), "res.data", ThenHandleError)

getRoomMemberIds(roomId, start, options) ==
    Pending("get", "/v2/bot/room/" \o roomId \o "/members/ids" \o StartQuery(start),
            Undefined, AuthConfig(options.accessToken), "res.data", ThenHandleError)

leaveGroup(groupId, options) ==
    Pending("post", "/v2/bot/group/" \o groupId \o "/leave", Some(Null),
            AuthConfig(options.accessToken), "res.data", ThenHandleError)

leaveRoom(roomId, options) ==
    Pending("post", "/v2/bot/room/" \o roomId \o "/leave", Some(Null),
            AuthConfig(options.accessToken), "res.data", ThenHandleError)

getRichMenuList(options) ==
    Pending("get", "/v2/bot/richmenu/list", Undefined,
            AuthConfig(options.accessToken), "res.data.richmenus", ThenHandleError)

getRichMenu(richMenuId, options) ==
    Pending("get", "/v2/bot/richmenu/" \o richMenuId, Undefined,
            AuthConfig(options.accessToken), "res.data", ThenCatch)

createRichMenu(richMenu, options) ==
    Pending("post", "/v2/bot/richmenu", Some(richMenu),
            AuthConfig(options.accessToken), "res.data", ThenHandleError)

deleteRichMenu(richMenuId, options) ==
    Pending("delete", "/v2/bot/richmenu/" \o richMenuId, Undefined,
            AuthConfig(options.accessToken), "res.data", ThenHandleError)

getLinkedRichMenu(userId, options) ==
    Pending("get", "/v2/bot/user/" \o userId \o "/richmenu", Undefined,
            AuthConfig(options.accessToken), "res.data", ThenCatch)

linkRichMenu(userId, richMenuId, options) ==
    Pending("post", "/v2/bot/user/" \o userId \o "/richmenu/" \o richMenuId,
            Some(Null), AuthConfig(options.accessToken), "res.data", ThenHandleError)

unlinkRichMenu(userId, options) ==
    Pending("delete", "/v2/bot/user/" \o userId \o "/richmenu", Undefined,
            AuthConfig(options.accessToken), "res.data", ThenHandleError)

getDefaultRichMenu(options) ==
    Pending("get", "/v2/bot/user/all/richmenu", Undefined,
            AuthConfig(options.accessToken), "res.data", ThenCatch)

setDefaultRichMenu(richMenuId, options) ==
    Pending("post", "/v2/bot/user/all/richmenu/" \o richMenuId, Some(Null),
            AuthConfig(options.accessToken), "res.data", ThenHandleError)

deleteDefaultRichMenu(options) ==
    Pending("delete", "/v2/bot/user/all/richmenu", Undefined,
            AuthConfig(options.accessToken), "res.data", ThenHandleError)

\* imageType(image): the type read from the buffer's leading bytes, or null
imageType(image) ==
    CASE image = "PNG-bytes" -> Some([ext |-> "png", mime |-> "image/png"])
      [] image = "JPEG-bytes" -> Some([ext |-> "jpg", mime |-> "image/jpeg"])
      [] image = "GIF-bytes" -> Some([ext |-> "gif", mime |-> "image/gif"])
      [] OTHER -> Undefined

InvariantViolation ==
    [name |-> "Invariant Violation",
     message |-> "Image must be 'image/jpeg' or 'image/png'",
     response |-> Undefined]

\* an upload that goes to the network whatever the image type is
uploadRichMenuImageUnchecked(richMenuId, image, options) ==
    LET type == imageType(image)
    IN  Pending("post", "/v2/bot/richmenu/" \o richMenuId \o "/content", Some(image),
                Some([headers |->
                          ("Content-Type" :> (IF type = Undefined THEN "undefined"
                                              ELSE type[1].mime))
                          @@ (IF Truthy(options.accessToken)
                              THEN AuthorizationHeader(options.accessToken)
                              ELSE NoHeaders),
                      responseType |-> Undefined]),
                "res.data", ThenHandleError)

uploadRichMenuImage(richMenuId, image, options) ==
    LET type == imageType(image)
    IN  IF ~(type # Undefined
             /\ (type[1].mime = "image/jpeg" \/ type[1].mime = "image/png"))
        THEN Thrown(InvariantViolation)
        ELSE Pending("post", "/v2/bot/richmenu/" \o richMenuId \o "/content",
                     Some(image),
                     Some([headers |->
                               ("Content-Type" :> type[1].mime)
                               @@ (IF Truthy(options.accessToken)
                                   THEN AuthorizationHeader(options.accessToken)
                                   ELSE NoHeaders),
                           responseType |-> Undefined]),
                     "res.data", ThenHandleError)

downloadRichMenuImage(richMenuId, options) ==
    Pending("get", "/v2/bot/richmenu/" \o richMenuId \o "/content", Undefined,
            Some([headers |-> (IF Truthy(options.accessToken)
                               THEN AuthorizationHeader(options.accessToken)
                               ELSE NoHeaders),
                  responseType |-> Some("arraybuffer")]),
            "Buffer.from(res.data)", ThenCatch)

issueLinkToken(userId, options) ==
    Pending("post", "/v2/bot/user/" \o userId \o "/linkToken", Some(Null),
            AuthConfig(options.accessToken), "res.data", ThenHandleError)

getLiffAppList(options) ==
    Pending("get", "/liff/v1/apps", Undefined,
            AuthConfig(options.accessToken), "res.data.apps", ThenHandleError)

createLiffApp(view, options) ==
    Pending("post", "/liff/v1/apps", Some(view),
            AuthConfig(options.accessToken), "res.data", ThenHandleError)

updateLiffApp(liffId, view, options) ==
    Pending("put", "/liff/v1/apps/" \o liffId \o "/view", Some(view),
            AuthConfig(options.accessToken), "res.data", ThenHandleError)

deleteLiffApp(liffId, options) ==
    Pending("delete", "/liff/v1/apps/" \o liffId, Undefined,
            AuthConfig(options.accessToken), "res.data", ThenHandleError)

----------------------------------------------------------------------------
(* Message adapters: one method per message kind and mode, each building a  *)
(* one-element message list and handing it to _send.                        *)

\* the message Line.create<Kind>(...) returns, named by the builder and the
\* arguments it was given
Built(builder, arguments) == [builder |-> builder, arguments |-> arguments]


\* `options || {}`, and a parameter declared `options = {}`: an omitted
\* options object is read as one with no property set
OrEmpty(options) ==
    IF options = Undefined
    THEN [accessToken |-> Undefined, quickReply |-> Undefined]
    ELSE options[1]

\* { imageAspectRatio, imageSize, ...options } = {}: the parameter's default
OrEmptyCarousel(options) ==
    IF options = Undefined
    THEN [imageAspectRatio |-> Undefined, imageSize |-> Undefined,
          accessToken |-> Undefined, quickReply |-> Undefined]
    ELSE options[1]
\* ...options: what the destructuring leaves after the two image fields
RestOptions(given) ==
    [accessToken |-> given.accessToken, quickReply |-> given.quickReply]
\* { imageAspectRatio, imageSize, ...options }
CarouselOptionsOf(imageAspectRatio, imageSize, options) ==
    [imageAspectRatio |-> imageAspectRatio, imageSize |-> imageSize,
     accessToken |-> options.accessToken, quickReply |-> options.quickReply]

_sendText(type, target, text, options) ==
    _send(type, target,
          <<Built("createText", <<text, OrEmpty(options)>>)>>,
          OrEmpty(options))

_sendImage(type, target, image, options) ==
    _send(type, target,
          <<Built("createImage", <<image, OrEmpty(options)>>)>>,
          OrEmpty(options))

_sendVideo(type, target, video, options) ==
    _send(type, target,
          <<Built("createVideo", <<video, OrEmpty(options)>>)>>,
          OrEmpty(options))

_sendAudio(type, target, audio, options) ==
    _send(type, target,
          <<Built("createAudio", <<audio, OrEmpty(options)>>)>>,
          OrEmpty(options))

_sendLocation(type, target, location, options) ==
    _send(type, target,
          <<Built("createLocation", <<location, OrEmpty(options)>>)>>,
          OrEmpty(options))

_sendSticker(type, target, sticker, options) ==
    _send(type, target,
          <<Built("createSticker", <<sticker, OrEmpty(options)>>)>>,
          OrEmpty(options))

_sendImagemap(type, target, altText, imagemap, options) ==
    _send(type, target,
          <<Built("createImagemap",
                  <<altText,
                    [baseUrl |-> imagemap.baseUrl,
                     baseSize |-> imagemap.baseSize,
                     video |-> imagemap.video,
                     actions |-> imagemap.actions],
                    OrEmpty(options)>>)>>,
          OrEmpty(options))

_sendFlex(type, target, altText, flex, options) ==
    _send(type, target,
          <<Built("createFlex", <<altText, flex, OrEmpty(options)>>)>>,
          OrEmpty(options))

_sendTemplate(type, target, altText, template, options) ==
    _send(type, target,
          <<Built("createTemplate", <<altText, template, OrEmpty(options)>>)>>,
          OrEmpty(options))

_sendButtonTemplate(type, target, altText, buttonTemplate, options) ==
    _send(type, target,
          <<Built("createButtonTemplate",
                  <<altText,
                    [thumbnailImageUrl |-> buttonTemplate.thumbnailImageUrl,
                     imageAspectRatio |-> buttonTemplate.imageAspectRatio,
                     imageSize |-> buttonTemplate.imageSize,
                     imageBackgroundColor |-> buttonTemplate.imageBackgroundColor,
                     title |-> buttonTemplate.title,
                     text |-> buttonTemplate.text,
                     defaultAction |-> buttonTemplate.defaultAction,
                     actions |-> buttonTemplate.actions],
                    OrEmpty(options)>>)>>,
          OrEmpty(options))

_sendConfirmTemplate(type, target, altText, confirmTemplate, options) ==
    _send(type, target,
          <<Built("createConfirmTemplate",
                  <<altText,
                    [text |-> confirmTemplate.text,
                     actions |-> confirmTemplate.actions],
                    OrEmpty(options)>>)>>,
          OrEmpty(options))

\* the fifth parameter is destructured: the two image fields go to the
\* builder together with the rest, and the rest alone goes to _send
_sendCarouselTemplate(type, target, altText, columns, carouselOptions) ==
    LET given == OrEmptyCarousel(carouselOptions)
        imageAspectRatio == given.imageAspectRatio
        imageSize == given.imageSize
        options == RestOptions(given)
    IN  _send(type, target,
              <<Built("createCarouselTemplate",
                      <<altText, columns,
                        CarouselOptionsOf(imageAspectRatio, imageSize, options)>>)>>,
              options)

_sendImageCarouselTemplate(type, target, altText, columns, options) ==
    _send(type, target,
          <<Built("createImageCarouselTemplate",
                  <<altText, columns, OrEmpty(options)>>)>>,
          OrEmpty(options))

replyText(replyToken, text, options) ==
    _sendText(Some("reply"), replyToken, text, options)

replyImage(replyToken, image, options) ==
    _sendImage(Some("reply"), replyToken, image, options)

replyVideo(replyToken, video, options) ==
    _sendVideo(Some("reply"), replyToken, video, options)

replyAudio(replyToken, audio, options) ==
    _sendAudio(Some("reply"), replyToken, audio, options)

replyLocation(replyToken, location, options) ==
    _sendLocation(Some("reply"), replyToken, location, options)

replySticker(replyToken, sticker, options) ==
    _sendSticker(Some("reply"), replyToken, sticker, options)

replyImagemap(replyToken, altText, imagemap, options) ==
    _sendImagemap(Some("reply"), replyToken, altText, imagemap, options)

replyFlex(replyToken, altText, flex, options) ==
    _sendFlex(Some("reply"), replyToken, altText, flex, options)

replyTemplate(replyToken, altText, template, options) ==
    _sendTemplate(Some("reply"), replyToken, altText, template, options)

replyButtonTemplate(replyToken, altText, buttonTemplate, options) ==
    _sendButtonTemplate(Some("reply"), replyToken, altText, buttonTemplate, options)

replyButtonsTemplate(replyToken, altText, buttonTemplate, options) ==
    replyButtonTemplate(replyToken, altText, buttonTemplate, options)

replyConfirmTemplate(replyToken, altText, confirmTemplate, options) ==
    _sendConfirmTemplate(Some("reply"), replyToken, altText, confirmTemplate, options)

replyCarouselTemplate(replyToken, altText, columns, carouselOptions) ==
    LET given == OrEmptyCarousel(carouselOptions)
        imageAspectRatio == given.imageAspectRatio
        imageSize == given.imageSize
        options == RestOptions(given)
    IN  _sendCarouselTemplate(
            Some("reply"), replyToken, altText, columns,
            Some(CarouselOptionsOf(imageAspectRatio, imageSize, options)))

replyImageCarouselTemplate(replyToken, altText, columns, options) ==
    _sendImageCarouselTemplate(Some("reply"), replyToken, altText, columns, options)

pushText(to, text, options) ==
    _sendText(Some("push"), to, text, options)

pushImage(to, image, options) ==
    _sendImage(Some("push"), to, image, options)

pushVideo(to, video, options) ==
    _sendVideo(Some("push"), to, video, options)

pushAudio(to, audio, options) ==
    _sendAudio(Some("push"), to, audio, options)

pushLocation(to, location, options) ==
    _sendLocation(Some("push"), to, location, options)

pushSticker(to, sticker, options) ==
    _sendSticker(Some("push"), to, sticker, options)

pushImagemap(to, altText, imagemap, options) ==
    _sendImagemap(Some("push"), to, altText, imagemap, options)

pushFlex(to, altText, flex, options) ==
    _sendFlex(Some("push"), to, altText, flex, options)

pushTemplate(to, altText, template, options) ==
    _sendTemplate(Some("push"), to, altText, template, options)

pushButtonTemplate(to, altText, buttonTemplate, options) ==
    _sendButtonTemplate(Some("push"), to, altText, buttonTemplate, options)

pushButtonsTemplate(to, altText, buttonTemplate, options) ==
    pushButtonTemplate(to, altText, buttonTemplate, options)

pushConfirmTemplate(to, altText, confirmTemplate, options) ==
    _sendConfirmTemplate(Some("push"), to, altText, confirmTemplate, options)

pushCarouselTemplate(to, altText, columns, carouselOptions) ==
    LET given == OrEmptyCarousel(carouselOptions)
        imageAspectRatio == given.imageAspectRatio
        imageSize == given.imageSize
        options == RestOptions(given)
    IN  _sendCarouselTemplate(
            Some("push"), to, altText, columns,
            Some(CarouselOptionsOf(imageAspectRatio, imageSize, options)))

pushImageCarouselTemplate(to, altText, columns, options) ==
    _sendImageCarouselTemplate(Some("push"), to, altText, columns, options)

multicastText(to, text, options) ==
    _sendText(Some("multicast"), to, text, options)

multicastImage(to, image, options) ==
    _sendImage(Some("multicast"), to, image, options)

multicastVideo(to, video, options) ==
    _sendVideo(Some("multicast"), to, video, options)

multicastAudio(to, audio, options) ==
    _sendAudio(Some("multicast"), to, audio, options)

multicastLocation(to, location, options) ==
    _sendLocation(Some("multicast"), to, location, options)

multicastSticker(to, sticker, options) ==
    _sendSticker(Some("multicast"), to, sticker, options)

multicastImagemap(to, altText, imagemap, options) ==
    _sendImagemap(Some("multicast"), to, altText, imagemap, options)

multicastFlex(to, altText, flex, options) ==
    _sendFlex(Some("multicast"), to, altText, flex, options)

multicastTemplate(to, altText, template, options) ==
    _sendTemplate(Some("multicast"), to, altText, template, options)

multicastButtonTemplate(to, altText, buttonTemplate, options) ==
    _sendButtonTemplate(Some("multicast"), to, altText, buttonTemplate, options)

multicastButtonsTemplate(to, altText, buttonTemplate, options) ==
    multicastButtonTemplate(to, altText, buttonTemplate, options)

multicastConfirmTemplate(to, altText, confirmTemplate, options) ==
    _sendConfirmTemplate(Some("multicast"), to, altText, confirmTemplate, options)

multicastCarouselTemplate(to, altText, columns, carouselOptions) ==
    LET given == OrEmptyCarousel(carouselOptions)
        imageAspectRatio == given.imageAspectRatio
        imageSize == given.imageSize
        options == RestOptions(given)
    IN  _sendCarouselTemplate(
            Some("multicast"), to, altText, columns,
            Some(CarouselOptionsOf(imageAspectRatio, imageSize, options)))

\* a multicast adapter that hands _send the push tag
multicastImageCarouselTemplateAsPush(to, altText, columns, options) ==
    _sendImageCarouselTemplate(Some("push"), to, altText, columns, options)

multicastImageCarouselTemplate(to, altText, columns, options) ==
    _sendImageCarouselTemplate(Some("multicast"), to, altText, columns, options)

----------------------------------------------------------------------------
(* Promise chains.                                                         *)

Fulfilled(value) == [state |-> "fulfilled", value |-> value]
Rejected(reason) == [state |-> "rejected", reason |-> reason]

\* Buffer.from(data)
BufferFrom(data) == [type |-> "Buffer", bytes |-> data]

\* the fulfilment handler of a method, applied to the response
OnFulfilled(handler, res) ==
    CASE handler = "res.data" -> res.data
      [] handler = "res.data.richmenus" -> res.data.richmenus
      [] handler = "res.data.apps" -> res.data.apps
      [] handler = "Buffer.from(res.data)" -> BufferFrom(res.data)

\* promise.then(f, handleError)
ThenOrHandleError(promise, handler) ==
    IF promise.state = "fulfilled"
    THEN Fulfilled(OnFulfilled(handler, promise.value))
    ELSE Rejected(handleError(promise.reason))

\* promise.then(f)
Then(promise, handler) ==
    IF promise.state = "fulfilled"
    THEN Fulfilled(OnFulfilled(handler, promise.value))
    ELSE promise

\* a catch handler that normalises every failure and softens none
CatchAlwaysRaise(promise) ==
    IF promise.state = "rejected"
    THEN Rejected(handleError(promise.reason))
    ELSE promise

\* a catch handler that turns every failure that has a response into null
CatchAnyStatus(promise) ==
    IF promise.state = "rejected"
    THEN LET err == promise.reason
         IN  IF err.response # Undefined
             THEN Fulfilled(Null)
             ELSE Rejected(handleError(err))
    ELSE promise

\* promise.catch(err => {
\*   if (err.response && err.response.status === 404) return null;
\*   return handleError(err); })
CatchNotFound(promise) ==
    IF promise.state = "rejected"
    THEN LET err == promise.reason
         IN  IF err.response # Undefined /\ err.response[1].status = 404
             THEN Fulfilled(Null)
             ELSE Rejected(handleError(err))
    ELSE promise

\* the promise a method returns, once its request has settled
Chain(pending, settled) ==
    CASE pending.chain = ThenHandleError ->
            ThenOrHandleError(settled, pending.onFulfilled)
      [] pending.chain = ThenCatch ->
            CatchNotFound(Then(settled, pending.onFulfilled))
      [] pending.chain = ThenHandleErrorCatch ->
            CatchNotFound(ThenOrHandleError(settled, pending.onFulfilled))

----------------------------------------------------------------------------
(* The instance and its axios requests.                                    *)

Origins == {Undefined, Some("https://proxy.test")}
ClientConfigs ==
    {[accessToken |-> t, channelSecret |-> "secret", origin |-> o,
      onRequest |-> Undefined] : t \in Tokens, o \in Origins}

\* axios.create({ baseURL: `${origin || 'https://api.line.me'}/`,
\*   headers: { Authorization: `Bearer ${this._accessToken}`,
\*              'Content-Type': 'application/json' } })
axiosCreate(origin, token) ==
    [defaults |->
        [baseURL |-> (IF Truthy(origin) THEN origin[1] ELSE "https://api.line.me") \o "/",
         headers |-> ("Authorization" :> ("Bearer " \o token))
                     @@ ("Content-Type" :> "application/json")]]

\* a merge in which the instance's default headers win over the call's
AxiosRequestDefaultsWin(pending) ==
    [method |-> pending.verb,
     baseURL |-> _axios.defaults.baseURL,
     url |-> pending.url,
     headers |-> _axios.defaults.headers
                 @@ (IF pending.config = Undefined THEN NoHeaders
                     ELSE pending.config[1].headers),
     data |-> pending.data,
     responseType |-> IF pending.config = Undefined THEN Undefined
                      ELSE pending.config[1].responseType]

\* the request configuration axios builds for one call: the per-call
\* configuration laid over the instance's defaults
AxiosRequest(pending) ==
    [method |-> pending.verb,
     baseURL |-> _axios.defaults.baseURL,
     url |-> pending.url,
     headers |-> (IF pending.config = Undefined THEN NoHeaders
                  ELSE pending.config[1].headers)
                 @@ _axios.defaults.headers,
     data |-> pending.data,
     responseType |-> IF pending.config = Undefined THEN Undefined
                      ELSE pending.config[1].responseType]

\* urlJoin(a, b): the two parts joined by exactly one slash
urlJoin(a, b) ==
    LET left == IF Len(a) > 0 /\ SubSeq(a, Len(a), Len(a)) = "/"
                THEN SubSeq(a, 1, Len(a) - 1) ELSE a
        right == IF Len(b) > 0 /\ SubSeq(b, 1, 1) = "/"
                 THEN SubSeq(b, 2, Len(b)) ELSE b
    IN  left \o "/" \o right

\* what the request interceptor hands to this._onRequest
OnRequestArgument(config) ==
    [method |-> config.method,
     url |-> urlJoin(config.baseURL, config.url),
     headers |-> config.headers,
     body |-> config.data]

----------------------------------------------------------------------------
(* Public method calls.                                                    *)

NoArgMethods ==
    {"getRichMenuList", "getDefaultRichMenu", "deleteDefaultRichMenu", "getLiffAppList"}
OneIdMethods ==
    {"retrieveMessageContent", "getUserProfile", "leaveGroup", "leaveRoom",
     "getRichMenu", "deleteRichMenu", "getLinkedRichMenu", "unlinkRichMenu",
     "setDefaultRichMenu", "downloadRichMenuImage", "issueLinkToken", "deleteLiffApp"}
TwoIdMethods == {"getGroupMemberProfile", "getRoomMemberProfile", "linkRichMenu"}
PageMethods == {"getGroupMemberIds", "getRoomMemberIds"}
AccumulatingMethods == {"getAllGroupMemberIds", "getAllRoomMemberIds"}
\* the lookups whose catch handler turns a 404 into null
SoftenedLookups ==
    {"getUserProfile", "getRichMenu", "getLinkedRichMenu", "getDefaultRichMenu",
     "downloadRichMenuImage"}

StringTargets == {"target1"}
ListTargets == {<<"U1", "U2">>}
\* the mode tag of _send: the three modes, a misspelt tag, and undefined
SendTypes == {Some("reply"), Some("push"), Some("multicast"), Some("replay"), Undefined}
RichMenus == {[name |-> "menu", chatBarText |-> "open"]}
LiffViews == {[type |-> "full", url |-> "https://liff.test/"]}

\* the endpoint call a public method makes when it is invoked
MethodCall(method, args, options) ==
    CASE method = "replyRawBody" -> replyRawBody(args[1], options)
      [] method = "reply" -> reply(args[1], args[2], options)
      [] method = "pushRawBody" -> pushRawBody(args[1], options)
      [] method = "push" -> push(args[1], args[2], options)
      [] method = "multicastRawBody" -> multicastRawBody(args[1], options)
      [] method = "multicast" -> multicast(args[1], args[2], options)
      [] method = "_send" -> _send(args[1], args[2], args[3], options)
      [] method = "retrieveMessageContent" -> retrieveMessageContent(args[1], options)
      [] method = "getUserProfile" -> getUserProfile(args[1], options)
      [] method = "getGroupMemberProfile" ->
            getGroupMemberProfile(args[1], args[2], options)
      [] method = "getRoomMemberProfile" ->
            getRoomMemberProfile(args[1], args[2], options)
      [] method = "getGroupMemberIds" -> getGroupMemberIds(args[1], args[2], options)
      [] method = "getRoomMemberIds" -> getRoomMemberIds(args[1], args[2], options)
      [] method = "leaveGroup" -> leaveGroup(args[1], options)
      [] method = "leaveRoom" -> leaveRoom(args[1], options)
      [] method = "getRichMenuList" -> getRichMenuList(options)
      [] method = "getRichMenu" -> getRichMenu(args[1], options)
      [] method = "createRichMenu" -> createRichMenu(args[1], options)
      [] method = "deleteRichMenu" -> deleteRichMenu(args[1], options)
      [] method = "getLinkedRichMenu" -> getLinkedRichMenu(args[1], options)
      [] method = "linkRichMenu" -> linkRichMenu(args[1], args[2], options)
      [] method = "unlinkRichMenu" -> unlinkRichMenu(args[1], options)
      [] method = "getDefaultRichMenu" -> getDefaultRichMenu(options)
      [] method = "setDefaultRichMenu" -> setDefaultRichMenu(args[1], options)
      [] method = "deleteDefaultRichMenu" -> deleteDefaultRichMenu(options)
      [] method = "uploadRichMenuImage" ->
            uploadRichMenuImage(args[1], args[2], options)
      [] method = "downloadRichMenuImage" -> downloadRichMenuImage(args[1], options)
      [] method = "issueLinkToken" -> issueLinkToken(args[1], options)
      [] method = "getLiffAppList" -> getLiffAppList(options)
      [] method = "createLiffApp" -> createLiffApp(args[1], options)
      [] method = "updateLiffApp" -> updateLiffApp(args[1], args[2], options)
      [] method = "deleteLiffApp" -> deleteLiffApp(args[1], options)

\* a page fetch that never passes the cursor on
PageFetchWithoutCursor(method, args, continuationToken, options) ==
    IF method = "getAllGroupMemberIds"
    THEN getGroupMemberIds(args[1], Undefined, options)
    ELSE getRoomMemberIds(args[1], Undefined, options)

\* a page fetch that passes the options on with the first page only
PageFetchOptionsOnFirstPage(method, args, continuationToken, options) ==
    LET passed == IF continuationToken = Undefined THEN options
                  ELSE [accessToken |-> Undefined]
    IN  IF method = "getAllGroupMemberIds"
        THEN getGroupMemberIds(args[1], continuationToken, passed)
        ELSE getRoomMemberIds(args[1], continuationToken, passed)

\* await this.getGroupMemberIds(groupId, continuationToken, options)
PageFetch(method, args, continuationToken, options) ==
    IF method = "getAllGroupMemberIds"
    THEN getGroupMemberIds(args[1], continuationToken, options)
    ELSE getRoomMemberIds(args[1], continuationToken, options)

Idle == [pc |-> "idle"]

\* a call in progress.  sent and observed list the requests this call has
\* dispatched and the arguments the observer has been given for it; pages
\* lists the pages the server has answered with and failure is the failure
\* the transport has raised, if any.
Call(pc, method, args, options, pending, request, outcome) ==
    [pc |-> pc, method |-> method, args |-> args, options |-> options,
     pending |-> pending, request |-> request, sent |-> << >>,
     observed |-> << >>, allMemberIds |-> << >>,
     continuationToken |-> Undefined, pages |-> << >>, failure |-> Undefined,
     outcome |-> outcome]

\* the call after a method body has run up to its axios call (or its throw)
Started(method, args, options, pending) ==
    IF pending.thrown # Undefined
    THEN Call("done", method, args, options, pending, Undefined,
              Some([state |-> "thrown", reason |-> pending.thrown[1]]))
    ELSE Call("intercept", method, args, options, pending,
              Some(AxiosRequest(pending)), Undefined)

\* a call that writes its override into the instance's default headers
InvokeStoringOverride(c, method, args, options) ==
    /\ calls[c].pc = "idle"
    /\ calls' = [calls EXCEPT ![c] =
                    Started(method, args, options, MethodCall(method, args, options))]
    /\ _axios' = IF options.accessToken = Undefined THEN _axios
                 ELSE [_axios EXCEPT !.defaults.headers =
                            AuthorizationHeader(options.accessToken) @@ @]
    /\ UNCHANGED <<_accessToken, _channelSecret, _onRequest>>

\* a public endpoint method is called
Invoke(c, method, args, options) ==
    /\ calls[c].pc = "idle"
    /\ calls' = [calls EXCEPT ![c] =
                    Started(method, args, options, MethodCall(method, args, options))]
    /\ UNCHANGED instance

\* the endpoint call an adapter makes when it is invoked
AdapterCall(method, args, options) ==
    CASE method = "replyText" ->
            replyText(args[1], args[2], options)
      [] method = "replyImage" ->
            replyImage(args[1], args[2], options)
      [] method = "replyVideo" ->
            replyVideo(args[1], args[2], options)
      [] method = "replyAudio" ->
            replyAudio(args[1], args[2], options)
      [] method = "replyLocation" ->
            replyLocation(args[1], args[2], options)
      [] method = "replySticker" ->
            replySticker(args[1], args[2], options)
      [] method = "replyImagemap" ->
            replyImagemap(args[1], args[2], args[3], options)
      [] method = "replyFlex" ->
            replyFlex(args[1], args[2], args[3], options)
      [] method = "replyTemplate" ->
            replyTemplate(args[1], args[2], args[3], options)
      [] method = "replyButtonTemplate" ->
            replyButtonTemplate(args[1], args[2], args[3], options)
      [] method = "replyButtonsTemplate" ->
            replyButtonsTemplate(args[1], args[2], args[3], options)
      [] method = "replyConfirmTemplate" ->
            replyConfirmTemplate(args[1], args[2], args[3], options)
      [] method = "replyCarouselTemplate" ->
            replyCarouselTemplate(args[1], args[2], args[3], options)
      [] method = "replyImageCarouselTemplate" ->
            replyImageCarouselTemplate(args[1], args[2], args[3], options)
      [] method = "pushText" ->
            pushText(args[1], args[2], options)
      [] method = "pushImage" ->
            pushImage(args[1], args[2], options)
      [] method = "pushVideo" ->
            pushVideo(args[1], args[2], options)
      [] method = "pushAudio" ->
            pushAudio(args[1], args[2], options)
      [] method = "pushLocation" ->
            pushLocation(args[1], args[2], options)
      [] method = "pushSticker" ->
            pushSticker(args[1], args[2], options)
      [] method = "pushImagemap" ->
            pushImagemap(args[1], args[2], args[3], options)
      [] method = "pushFlex" ->
            pushFlex(args[1], args[2], args[3], options)
      [] method = "pushTemplate" ->
            pushTemplate(args[1], args[2], args[3], options)
      [] method = "pushButtonTemplate" ->
            pushButtonTemplate(args[1], args[2], args[3], options)
      [] method = "pushButtonsTemplate" ->
            pushButtonsTemplate(args[1], args[2], args[3], options)
      [] method = "pushConfirmTemplate" ->
            pushConfirmTemplate(args[1], args[2], args[3], options)
      [] method = "pushCarouselTemplate" ->
            pushCarouselTemplate(args[1], args[2], args[3], options)
      [] method = "pushImageCarouselTemplate" ->
            pushImageCarouselTemplate(args[1], args[2], args[3], options)
      [] method = "multicastText" ->
            multicastText(args[1], args[2], options)
      [] method = "multicastImage" ->
            multicastImage(args[1], args[2], options)
      [] method = "multicastVideo" ->
            multicastVideo(args[1], args[2], options)
      [] method = "multicastAudio" ->
            multicastAudio(args[1], args[2], options)
      [] method = "multicastLocation" ->
            multicastLocation(args[1], args[2], options)
      [] method = "multicastSticker" ->
            multicastSticker(args[1], args[2], options)
      [] method = "multicastImagemap" ->
            multicastImagemap(args[1], args[2], args[3], options)
      [] method = "multicastFlex" ->
            multicastFlex(args[1], args[2], args[3], options)
      [] method = "multicastTemplate" ->
            multicastTemplate(args[1], args[2], args[3], options)
      [] method = "multicastButtonTemplate" ->
            multicastButtonTemplate(args[1], args[2], args[3], options)
      [] method = "multicastButtonsTemplate" ->
            multicastButtonsTemplate(args[1], args[2], args[3], options)
      [] method = "multicastConfirmTemplate" ->
            multicastConfirmTemplate(args[1], args[2], args[3], options)
      [] method = "multicastCarouselTemplate" ->
            multicastCarouselTemplate(args[1], args[2], args[3], options)
      [] method = "multicastImageCarouselTemplate" ->
            multicastImageCarouselTemplate(args[1], args[2], args[3], options)


\* a message adapter is called, with an options object or without one
InvokeAdapter(c, method, args, options) ==
    /\ calls[c].pc = "idle"
    /\ calls' = [calls EXCEPT ![c] =
                    Started(method, args,
                            options,
                            AdapterCall(method, args, options))]
    /\ UNCHANGED instance

\* getAllGroupMemberIds / getAllRoomMemberIds is called: the loop's first fetch
InvokeAccumulate(c, method, args, options) ==
    /\ calls[c].pc = "idle"
    /\ method \in AccumulatingMethods
    /\ calls' = [calls EXCEPT ![c] =
                    Started(method, args, options,
                            PageFetch(method, args, Undefined, options))]
    /\ UNCHANGED instance

\* the request interceptor runs: the observer is given the request
Intercept(c) ==
    /\ calls[c].pc = "intercept"
    /\ calls' = [calls EXCEPT ![c].pc = "dispatch",
                              ![c].observed =
                                  Append(@, [observer |-> _onRequest,
                                             argument |->
                                                OnRequestArgument(calls[c].request[1])])]
    /\ UNCHANGED instance

\* a dispatch that puts the request on the wire twice
DispatchTwice(c) ==
    /\ calls[c].pc = "dispatch"
    /\ calls' = [calls EXCEPT ![c].pc = "sent",
                              ![c].sent = @ \o <<calls[c].request[1],
                                                 calls[c].request[1]>>]
    /\ UNCHANGED instance

\* axios hands the request to the transport
Dispatch(c) ==
    /\ calls[c].pc = "dispatch"
    /\ calls' = [calls EXCEPT ![c].pc = "sent",
                              ![c].sent = Append(@, calls[c].request[1])]
    /\ UNCHANGED instance

\* the failure a settled request has raised, if it has
Raised(settled) ==
    IF settled.state = "rejected" THEN Some(settled.reason) ELSE Undefined

\* a settle after which the instance adopts the override of a call that
\* succeeded
SettleAdoptingOverride(c, settled) ==
    LET custom == calls[c].options.accessToken
        adopt == settled.state = "fulfilled" /\ Truthy(custom)
    IN  /\ calls[c].pc = "sent"
        /\ calls[c].method \notin AccumulatingMethods
        /\ calls' = [calls EXCEPT ![c].pc = "done",
                                  ![c].failure = Raised(settled),
                                  ![c].outcome = Some(Chain(calls[c].pending, settled))]
        /\ _accessToken' = IF adopt THEN custom[1] ELSE _accessToken
        /\ _axios' = IF adopt
                     THEN [_axios EXCEPT !.defaults.headers =
                                AuthorizationHeader(custom) @@ @]
                     ELSE _axios
        /\ UNCHANGED <<_channelSecret, _onRequest>>

\* a settle that sends the request again when the transport has failed
SettleRetryingOnFailure(c, settled) ==
    /\ calls[c].pc = "sent"
    /\ calls[c].method \notin AccumulatingMethods
    /\ calls' = IF settled.state = "rejected" /\ settled.reason.response = Undefined
                   /\ Len(calls[c].sent) < 2
                THEN [calls EXCEPT ![c].pc = "intercept"]
                ELSE [calls EXCEPT ![c].pc = "done",
                                   ![c].failure = Raised(settled),
                                   ![c].outcome = Some(Chain(calls[c].pending, settled))]
    /\ UNCHANGED instance

\* the request of a single-request method settles and its chain runs
Settle(c, settled) ==
    /\ calls[c].pc = "sent"
    /\ calls[c].method \notin AccumulatingMethods
    /\ calls' = [calls EXCEPT ![c].pc = "done",
                              ![c].failure = Raised(settled),
                              ![c].outcome = Some(Chain(calls[c].pending, settled))]
    /\ UNCHANGED instance

\* a loop that returns what it has collected when a page fetch fails
AwaitPageKeepPartial(c, settled) ==
    LET call == calls[c]
        promise == Chain(call.pending, settled)
    IN  /\ call.pc = "sent"
        /\ call.method \in AccumulatingMethods
        /\ calls' = [calls EXCEPT ![c] =
                IF promise.state = "rejected"
                THEN [call EXCEPT !.pc = "done",
                                  !.failure = Raised(settled),
                                  !.outcome = Some(Fulfilled(call.allMemberIds))]
                ELSE LET memberIds == promise.value.memberIds
                         next == promise.value.next
                         allMemberIds == call.allMemberIds \o memberIds
                     IN  IF Truthy(next)
                         THEN LET fetch == PageFetch(call.method, call.args, next,
                                                     call.options)
                              IN  [call EXCEPT
                                     !.pc = "intercept",
                                     !.pages = Append(@, promise.value),
                                     !.allMemberIds = allMemberIds,
                                     !.continuationToken = next,
                                     !.pending = fetch,
                                     !.request = Some(AxiosRequest(fetch))]
                         ELSE [call EXCEPT
                                 !.pc = "done",
                                 !.pages = Append(@, promise.value),
                                 !.allMemberIds = allMemberIds,
                                 !.continuationToken = next,
                                 !.outcome = Some(Fulfilled(allMemberIds))]]
        /\ UNCHANGED instance

\* a loop that also ends on a page without member ids
AwaitPageStoppingOnEmptyPage(c, settled) ==
    LET call == calls[c]
        promise == Chain(call.pending, settled)
    IN  /\ call.pc = "sent"
        /\ call.method \in AccumulatingMethods
        /\ calls' = [calls EXCEPT ![c] =
                IF promise.state = "rejected"
                THEN [call EXCEPT !.pc = "done",
                                  !.failure = Raised(settled),
                                  !.outcome = Some(promise)]
                ELSE LET memberIds == promise.value.memberIds
                         next == promise.value.next
                         allMemberIds == call.allMemberIds \o memberIds
                     IN  IF Truthy(next) /\ memberIds # << >>
                         THEN LET fetch == PageFetch(call.method, call.args, next,
                                                     call.options)
                              IN  [call EXCEPT
                                     !.pc = "intercept",
                                     !.pages = Append(@, promise.value),
                                     !.allMemberIds = allMemberIds,
                                     !.continuationToken = next,
                                     !.pending = fetch,
                                     !.request = Some(AxiosRequest(fetch))]
                         ELSE [call EXCEPT
                                 !.pc = "done",
                                 !.pages = Append(@, promise.value),
                                 !.allMemberIds = allMemberIds,
                                 !.continuationToken = next,
                                 !.outcome = Some(Fulfilled(allMemberIds))]]
        /\ UNCHANGED instance

\* the awaited page fetch of an accumulation settles: one pass of
\*   do { const { memberIds, next } = await this.getGroupMemberIds(...);
\*        allMemberIds = allMemberIds.concat(memberIds);
\*        continuationToken = next;
\*   } while (continuationToken);
\*   return allMemberIds;
\* A rejected fetch makes the await throw, which rejects the call.
AwaitPage(c, settled) ==
    LET call == calls[c]
        promise == Chain(call.pending, settled)
    IN  /\ call.pc = "sent"
        /\ call.method \in AccumulatingMethods
        /\ calls' = [calls EXCEPT ![c] =
                IF promise.state = "rejected"
                THEN [call EXCEPT !.pc = "done",
                                  !.failure = Raised(settled),
                                  !.outcome = Some(promise)]
                ELSE LET memberIds == promise.value.memberIds
                         next == promise.value.next
                         allMemberIds == call.allMemberIds \o memberIds
                     IN  IF Truthy(next)
                         THEN LET fetch == PageFetch(call.method, call.args, next,
                                                     call.options)
                              IN  [call EXCEPT
                                     !.pc = "intercept",
                                     !.pages = Append(@, promise.value),
                                     !.allMemberIds = allMemberIds,
                                     !.continuationToken = next,
                                     !.pending = fetch,
                                     !.request = Some(AxiosRequest(fetch))]
                         ELSE [call EXCEPT
                                 !.pc = "done",
                                 !.pages = Append(@, promise.value),
                                 !.allMemberIds = allMemberIds,
                                 !.continuationToken = next,
                                 !.outcome = Some(Fulfilled(allMemberIds))]]
        /\ UNCHANGED instance

\* the caller has taken the outcome of a finished call
Return(c) ==
    /\ calls[c].pc = "done"
    /\ calls' = [calls EXCEPT ![c] = Idle]
    /\ UNCHANGED instance

----------------------------------------------------------------------------
(* The server and the transport.                                           *)

ErrorDetails ==
    {[property |-> Some("messages[0].type"), message |-> Some("may not be null")],
     [property |-> Some("to"), message |-> Some("invalid")]}
ErrorMessages == {Undefined, Some("The request body has 1 error(s)")}
\* the body of an error response: none, the empty string, or an object with
\* an optional message and an optional details list
ErrorBodies ==
    {Undefined, Some(EmptyString)}
    \cup {Some([message |-> m, details |-> d]) :
            m \in ErrorMessages,
            d \in {Undefined} \cup {Some(ds) : ds \in SeqsUpTo(ErrorDetails, MaxDetails)}}

\* the failure axios raises for a response with an error status
HttpFailure(status, data) ==
    [message |-> "Request failed with status code " \o ToString(status),
     response |-> Some([status |-> status, data |-> data])]

\* the failure axios raises when no response was received
TransportFailure(message) == [message |-> message, response |-> Undefined]

Failures ==
    {HttpFailure(status, data) : status \in {400, 404}, data \in ErrorBodies}
    \cup {TransportFailure(m) : m \in {"Network Error", "timeout of 1000ms exceeded"}}

\* the failures served to the accumulation loop and to concurrent calls
FewFailures ==
    {HttpFailure(404, Some([message |-> Some("Not found"), details |-> Undefined])),
     HttpFailure(400, Some([message |-> Some("The request body has 1 error(s)"),
                            details |-> Some(<<[property |-> Some("to"),
                                                message |-> Some("invalid")]>>)])),
     TransportFailure("Network Error")}

\* the bodies a successful response to the call's request may carry
SuccessBodies(call) ==
    IF call.pc # "sent" THEN {}
    ELSE IF call.method \in PageMethods \cup AccumulatingMethods THEN Pages
    ELSE IF call.pending.onFulfilled = "res.data.richmenus"
         THEN {[richmenus |-> <<"richmenu-1">>]}
    ELSE IF call.pending.onFulfilled = "res.data.apps"
         THEN {[apps |-> <<"liff-1">>]}
    ELSE IF call.pending.onFulfilled = "Buffer.from(res.data)"
         THEN {"bytes"}
    ELSE {[displayName |-> "LINE bot"]}

Response(data) == [status |-> 200, data |-> data]

\* the server answers the awaited page fetch; a chain is at most MaxPages long
ServePage(c, page) ==
    /\ calls[c].pc = "sent"
    /\ Truthy(page.next) => Len(calls[c].pages) + 1 < MaxPages
    /\ AwaitPage(c, Fulfilled(Response(page)))

----------------------------------------------------------------------------
(* Specifications.                                                         *)

\* new LineClient(config)
Construct(config) ==
    /\ _accessToken = config.accessToken
    /\ _channelSecret = config.channelSecret
    /\ _onRequest = (IF config.onRequest # Undefined THEN config.onRequest[1]
                     ELSE "messaging-api-common.onRequest")
    /\ _axios = axiosCreate(config.origin, config.accessToken)

Init ==
    /\ \E config \in ClientConfigs : Construct(config)
    /\ calls = [c \in 1..1 |-> Idle]

\* every endpoint method, one call at a time
Next ==
    \/ \E c \in DOMAIN calls, options \in Options, m \in NoArgMethods :
            Invoke(c, m, << >>, options)
    \/ \E c \in DOMAIN calls, options \in Options, m \in OneIdMethods, id \in Ids :
            Invoke(c, m, <<id>>, options)
    \/ \E c \in DOMAIN calls, options \in Options, m \in TwoIdMethods, id \in Ids :
            Invoke(c, m, <<id, "U1">>, options)
    \/ \E c \in DOMAIN calls, options \in Options, m \in PageMethods, id \in Ids,
          start \in NextCursors :
            Invoke(c, m, <<id, start>>, options)
    \/ \E c \in DOMAIN calls, options \in Options, richMenu \in RichMenus :
            Invoke(c, "createRichMenu", <<richMenu>>, options)
    \/ \E c \in DOMAIN calls, options \in Options, view \in LiffViews :
            \/ Invoke(c, "createLiffApp", <<view>>, options)
            \/ \E id \in Ids : Invoke(c, "updateLiffApp", <<id, view>>, options)
    \/ \E c \in DOMAIN calls, options \in Options, id \in Ids, image \in Buffers :
            Invoke(c, "uploadRichMenuImage", <<id, image>>, options)
    \/ \E c \in DOMAIN calls, options \in Options, target \in StringTargets,
          messages \in MessageLists :
            \/ Invoke(c, "replyRawBody",
                      <<[replyToken |-> target, messages |-> messages]>>, options)
            \/ Invoke(c, "pushRawBody",
                      <<[to |-> target, messages |-> messages]>>, options)
            \/ Invoke(c, "reply", <<target, messages>>, options)
            \/ Invoke(c, "push", <<target, messages>>, options)
            \/ \E type \in SendTypes :
                    Invoke(c, "_send", <<type, target, messages>>, options)
    \/ \E c \in DOMAIN calls, options \in Options, target \in ListTargets,
          messages \in MessageLists :
            \/ Invoke(c, "multicastRawBody",
                      <<[to |-> target, messages |-> messages]>>, options)
            \/ Invoke(c, "multicast", <<target, messages>>, options)
            \/ \E type \in SendTypes :
                    Invoke(c, "_send", <<type, target, messages>>, options)
    \/ \E c \in DOMAIN calls : Intercept(c)
    \/ \E c \in DOMAIN calls : Dispatch(c)
    \/ \E c \in DOMAIN calls : \E data \in SuccessBodies(calls[c]) :
            Settle(c, Fulfilled(Response(data)))
    \/ \E c \in DOMAIN calls, err \in Failures : Settle(c, Rejected(err))
    \/ \E c \in DOMAIN calls : Return(c)

Spec == Init /\ [][Next]_vars

\* the accumulation loops, one call at a time
NextPages ==
    \/ \E c \in DOMAIN calls, m \in AccumulatingMethods, options \in Options :
            InvokeAccumulate(c, m, <<"id1">>, options)
    \/ \E c \in DOMAIN calls : Intercept(c)
    \/ \E c \in DOMAIN calls : Dispatch(c)
    \/ \E c \in DOMAIN calls, page \in Pages : ServePage(c, page)
    \/ \E c \in DOMAIN calls, err \in FewFailures : AwaitPage(c, Rejected(err))
    \/ \E c \in DOMAIN calls : Return(c)

SpecPages == Init /\ [][NextPages]_vars

\* the server answers the awaited page fetch, with a page or with a failure
AnswerPage ==
    \/ \E c \in DOMAIN calls, page \in Pages : ServePage(c, page)
    \/ \E c \in DOMAIN calls, err \in FewFailures : AwaitPage(c, Rejected(err))

\* the accumulation loops on an event loop that runs every continuation that
\* is ready, against a server that answers every request it is sent
SpecPagesFair ==
    /\ SpecPages
    /\ WF_vars(\E c \in DOMAIN calls : Intercept(c))
    /\ WF_vars(\E c \in DOMAIN calls : Dispatch(c))
    /\ WF_vars(AnswerPage)

\* several calls in progress at once on one instance
InitConcurrent ==
    /\ \E t \in Tokens, observer \in {Undefined, Some("customObserver")} :
            Construct([accessToken |-> t, channelSecret |-> "secret",
                       origin |-> Undefined, onRequest |-> observer])
    /\ calls = [c \in 1..MaxInFlight |-> Idle]

NextConcurrent ==
    \/ \E c \in DOMAIN calls, options \in Options :
            \/ Invoke(c, "pushRawBody",
                      <<[to |-> "target1", messages |-> <<"msg1">>]>>, options)
            \/ Invoke(c, "getUserProfile", <<"id1">>, options)
            \/ Invoke(c, "uploadRichMenuImage", <<"id1", "PNG-bytes">>, options)
    \/ \E c \in DOMAIN calls : Intercept(c)
    \/ \E c \in DOMAIN calls : Dispatch(c)
    \/ \E c \in DOMAIN calls : \E data \in SuccessBodies(calls[c]) :
            Settle(c, Fulfilled(Response(data)))
    \/ \E c \in DOMAIN calls :
            Settle(c, Rejected(HttpFailure(404, Undefined)))
    \/ \E c \in DOMAIN calls : Return(c)

SpecConcurrent == InitConcurrent /\ [][NextConcurrent]_vars

\* the arguments of the message adapters
MessageOptions ==
    {Undefined}
    \cup {Some([accessToken |-> o, quickReply |-> q]) :
            o \in AccessTokenOptions,
            q \in {Undefined, Some([items |-> <<"quick1">>])}}
CarouselOptions ==
    {Undefined}
    \cup {Some([imageAspectRatio |-> r, imageSize |-> Some("cover"),
                accessToken |-> o, quickReply |-> Undefined]) :
            r \in {Undefined, Some("square")}, o \in AccessTokenOptions}
SimpleKinds == {"Text", "Image", "Video", "Audio", "Location", "Sticker"}
AltTextKinds == {"Flex", "Template", "ImageCarouselTemplate"}
ButtonKinds == {"ButtonTemplate", "ButtonsTemplate"}
Contents == {"content1"}
Imagemaps ==
    {[baseUrl |-> "https://img.test/map", baseSize |-> "1040x1040",
      video |-> Undefined, actions |-> <<"action1">>]}
ButtonTemplates ==
    {[thumbnailImageUrl |-> Undefined, imageAspectRatio |-> Some("square"),
      imageSize |-> Undefined, imageBackgroundColor |-> Undefined,
      title |-> Some("title"), text |-> "text", defaultAction |-> Undefined,
      actions |-> <<"action1">>]}
ConfirmTemplates == {[text |-> "sure?", actions |-> <<"yes", "no">>]}
\* the targets a mode takes
TargetsOf(mode) == IF mode = "multicast" THEN ListTargets ELSE StringTargets
Modes == {"reply", "push", "multicast"}

\* the message adapters, one call at a time
NextAdapters ==
    \/ \E c \in DOMAIN calls, mode \in Modes, kind \in SimpleKinds,
          options \in MessageOptions :
            \E target \in TargetsOf(mode), content \in Contents :
                InvokeAdapter(c, mode \o kind, <<target, content>>, options)
    \/ \E c \in DOMAIN calls, mode \in Modes, kind \in AltTextKinds,
          options \in MessageOptions :
            \E target \in TargetsOf(mode), altText \in {"alt text"}, content \in Contents :
                InvokeAdapter(c, mode \o kind, <<target, altText, content>>, options)
    \/ \E c \in DOMAIN calls, mode \in Modes, options \in MessageOptions :
            \E target \in TargetsOf(mode), altText \in {"alt text"}, imagemap \in Imagemaps :
                InvokeAdapter(c, mode \o "Imagemap", <<target, altText, imagemap>>,
                              options)
    \/ \E c \in DOMAIN calls, mode \in Modes, kind \in ButtonKinds,
          options \in MessageOptions :
            \E target \in TargetsOf(mode), altText \in {"alt text"},
               buttonTemplate \in ButtonTemplates :
                InvokeAdapter(c, mode \o kind, <<target, altText, buttonTemplate>>,
                              options)
    \/ \E c \in DOMAIN calls, mode \in Modes, options \in MessageOptions :
            \E target \in TargetsOf(mode), altText \in {"alt text"},
               confirmTemplate \in ConfirmTemplates :
                InvokeAdapter(c, mode \o "ConfirmTemplate",
                              <<target, altText, confirmTemplate>>, options)
    \/ \E c \in DOMAIN calls, mode \in Modes, options \in CarouselOptions :
            \E target \in TargetsOf(mode), altText \in {"alt text"}, columns \in Contents :
                InvokeAdapter(c, mode \o "CarouselTemplate",
                              <<target, altText, columns>>, options)
    \/ \E c \in DOMAIN calls : Intercept(c)
    \/ \E c \in DOMAIN calls : Dispatch(c)
    \/ \E c \in DOMAIN calls : \E data \in SuccessBodies(calls[c]) :
            Settle(c, Fulfilled(Response(data)))
    \/ \E c \in DOMAIN calls, err \in FewFailures : Settle(c, Rejected(err))
    \/ \E c \in DOMAIN calls : Return(c)

SpecAdapters == Init /\ [][NextAdapters]_vars

----------------------------------------------------------------------------
(* Properties.                                                             *)

\* the calls that have built a request
InFlight(c) == calls[c].pc \in {"intercept", "dispatch", "sent"}
HasRequest(c) == calls[c].pc # "idle" /\ calls[c].request # Undefined
Authorization(c) == calls[c].request[1].headers["Authorization"]

\* C1: a call made with a non-empty accessToken option X carries the
\* Authorization header 'Bearer X' whatever the instance's token is, and a
\* call made without the option carries 'Bearer <instance token>'.
C1_OverrideOrDefault ==
    \A c \in DOMAIN calls :
        HasRequest(c) =>
            LET custom == calls[c].options.accessToken
            IN  /\ Truthy(custom) => Authorization(c) = "Bearer " \o custom[1]
                /\ custom = Undefined => Authorization(c) = "Bearer " \o _accessToken

\* a request whose override differs from the instance token is in flight
C1_Witness ==
    \E c \in DOMAIN calls :
        /\ HasRequest(c)
        /\ calls[c].pc = "sent"
        /\ Truthy(calls[c].options.accessToken)
        /\ calls[c].options.accessToken[1] # _accessToken
        /\ Authorization(c) = "Bearer " \o calls[c].options.accessToken[1]

\* C2: with several calls in flight, the token in each request's
\* Authorization header is the call's own override or the instance's
\* token, never a token that only another call supplied.
C2_NoCrossContamination ==
    \A c \in DOMAIN calls :
        InFlight(c) =>
            LET custom == calls[c].options.accessToken
                own == {"Bearer " \o _accessToken}
                       \cup (IF custom = Undefined THEN {}
                             ELSE {"Bearer " \o custom[1]})
            IN  /\ Authorization(c) \in own
                /\ \A d \in DOMAIN calls \ {c} :
                      (InFlight(d) /\ calls[d].method = calls[c].method
                       /\ calls[d].options = calls[c].options)
                          => Authorization(d) = Authorization(c)

\* two requests in flight at once, each with its own override
C2_Witness ==
    \E c, d \in DOMAIN calls :
        /\ c # d
        /\ calls[c].pc = "sent" /\ calls[d].pc = "sent"
        /\ calls[c].options.accessToken = Some("tokenA")
        /\ calls[d].options.accessToken = Some("tokenB")
        /\ Authorization(c) = "Bearer tokenA"
        /\ Authorization(d) = "Bearer tokenB"

\* the one request a single-request call has issued, once it is dispatched
Issued(c) == calls[c].sent

\* C3: _send with mode reply, push or multicast issues a POST to the path of
\* that mode, with body {replyToken: target, messages} for reply and
\* {to: target, messages} for push and multicast, the messages being the
\* list it was given.
C3_SendRoutesByMode ==
    \A c \in DOMAIN calls :
        (calls[c].pc # "idle" /\ calls[c].method = "_send"
         /\ calls[c].args[1] \in {Some("reply"), Some("push"), Some("multicast")})
        =>
            LET type == calls[c].args[1][1]
                target == calls[c].args[2]
                messages == calls[c].args[3]
                request == calls[c].request[1]
            IN  /\ request.method = "post"
                /\ type = "reply" =>
                      /\ request.url = "/v2/bot/message/reply"
                      /\ request.data = Some([replyToken |-> target,
                                              messages |-> messages])
                /\ type = "push" =>
                      /\ request.url = "/v2/bot/message/push"
                      /\ request.data = Some([to |-> target, messages |-> messages])
                /\ type = "multicast" =>
                      /\ request.url = "/v2/bot/message/multicast"
                      /\ request.data = Some([to |-> target, messages |-> messages])
                /\ calls[c].pc \in {"sent", "done"} => Issued(c) = <<request>>
                /\ calls[c].pc \in {"intercept", "dispatch"} => Issued(c) = << >>

\* a multicast of two messages has been sent through _send
C3_Witness ==
    \E c \in DOMAIN calls :
        /\ calls[c].pc = "sent"
        /\ calls[c].method = "_send"
        /\ calls[c].args[1] = Some("multicast")
        /\ calls[c].args[3] = <<"msg2", "msg1">>
        /\ Issued(c)[1].url = "/v2/bot/message/multicast"
        /\ Issued(c)[1].data[1].messages = <<"msg2", "msg1">>

\* the memberIds of the pages, concatenated in page order
RECURSIVE ConcatMemberIds(_)
ConcatMemberIds(pages) ==
    IF pages = << >> THEN << >>
    ELSE ConcatMemberIds(SubSeq(pages, 1, Len(pages) - 1))
         \o pages[Len(pages)].memberIds

MemberIdsPath(call) ==
    (IF call.method = "getAllGroupMemberIds" THEN "/v2/bot/group/" ELSE "/v2/bot/room/")
    \o call.args[1] \o "/members/ids"

\* C4: when the server has served N pages of which every one but the last
\* carries a next cursor, the accumulation returns the pages' memberIds
\* concatenated in page order, duplicates kept, after exactly N fetches:
\* the first without a start parameter, fetch k+1 with the cursor of page k.
\* (A next that is the empty string counts as no cursor.)
C4_AccumulatesAllPages ==
    \A c \in DOMAIN calls :
        (calls[c].pc = "done" /\ calls[c].method \in AccumulatingMethods
         /\ calls[c].failure = Undefined)
        =>
            LET call == calls[c]
                N == Len(call.pages)
            IN  /\ N >= 1
                /\ \A k \in 1..(N - 1) : Truthy(call.pages[k].next)
                /\ ~Truthy(call.pages[N].next)
                /\ call.outcome = Some(Fulfilled(ConcatMemberIds(call.pages)))
                /\ Len(call.sent) = N
                /\ call.sent[1].method = "get"
                /\ call.sent[1].url = MemberIdsPath(call)
                /\ \A k \in 1..(N - 1) :
                      /\ call.sent[k + 1].method = "get"
                      /\ call.sent[k + 1].url =
                            MemberIdsPath(call) \o "?start=" \o call.pages[k].next[1]

\* three pages with a repeated member id have been accumulated
C4_Witness ==
    \E c \in DOMAIN calls :
        /\ calls[c].pc = "done"
        /\ calls[c].method = "getAllGroupMemberIds"
        /\ Len(calls[c].pages) = 3
        /\ calls[c].pages[1].next = Some("tok1")
        /\ calls[c].pages[2].next = Some("tok2")
        /\ calls[c].outcome = Some(Fulfilled(<<"u1", "u2", "u1", "u1">>))
        /\ calls[c].sent[3].url = "/v2/bot/group/id1/members/ids?start=tok2"

\* C5: when a page fetch of an accumulation fails, at the first page or at a
\* later one, the call rejects with the normalised error of that fetch,
\* returns none of the member ids it has collected, and the failed fetch is
\* the last request it has issued.
C5_PageFailureAborts ==
    \A c \in DOMAIN calls :
        (calls[c].pc # "idle" /\ calls[c].method \in AccumulatingMethods
         /\ calls[c].failure # Undefined)
        =>
            LET call == calls[c]
            IN  /\ call.pc = "done"
                /\ call.outcome = Some(Rejected(handleError(call.failure[1])))
                /\ Len(call.sent) = Len(call.pages) + 1

\* a fetch has failed after two pages with member ids had been collected
C5_Witness ==
    \E c \in DOMAIN calls :
        /\ calls[c].pc = "done"
        /\ calls[c].method = "getAllRoomMemberIds"
        /\ calls[c].failure # Undefined
        /\ Len(calls[c].pages) = 2
        /\ calls[c].allMemberIds # << >>
        /\ calls[c].outcome[1].state = "rejected"

Status(err) == IF err.response = Undefined THEN Undefined
               ELSE Some(err.response[1].status)

\* C6: on getUserProfile, getRichMenu, getLinkedRichMenu, getDefaultRichMenu
\* and downloadRichMenuImage a response with status 404 makes the call
\* resolve with null.
C6_NotFoundIsNull ==
    \A c \in DOMAIN calls :
        (calls[c].pc = "done" /\ calls[c].method \in SoftenedLookups
         /\ calls[c].failure # Undefined
         /\ Status(calls[c].failure[1]) = Some(404))
        => calls[c].outcome = Some(Fulfilled(Null))

\* getUserProfile has resolved with null on a 404 that carried an error body
C6_Witness ==
    \E c \in DOMAIN calls :
        /\ calls[c].pc = "done"
        /\ calls[c].method = "getUserProfile"
        /\ calls[c].failure # Undefined
        /\ Status(calls[c].failure[1]) = Some(404)
        /\ calls[c].failure[1].response[1].data # Undefined
        /\ calls[c].outcome = Some(Fulfilled(Null))

\* C7: a failure is raised to the caller as a normalised error unless it is
\* a 404 on one of the five softened lookups: every other failure (a 404 on
\* any other method, another status or no response on any method) rejects
\* the call with the message handleError gives the failure.
C7_OnlySoftenedNotFoundIsSwallowed ==
    \A c \in DOMAIN calls :
        (calls[c].pc = "done" /\ calls[c].failure # Undefined)
        =>
            LET call == calls[c]
                err == call.failure[1]
                outcome == call.outcome[1]
            IN  IF call.method \in SoftenedLookups /\ Status(err) = Some(404)
                THEN outcome.state = "fulfilled"
                ELSE /\ outcome.state = "rejected"
                     /\ outcome.reason.name = "AxiosError"
                     /\ outcome.reason.message = handleError(err).message

\* a 404 on a member-id listing has rejected, and so has a transport
\* failure on a softened lookup
C7_Witness ==
    \E c \in DOMAIN calls :
        /\ calls[c].pc = "done"
        /\ calls[c].failure # Undefined
        /\ calls[c].outcome[1].state = "rejected"
        /\ \/ /\ calls[c].method = "getGroupMemberIds"
              /\ Status(calls[c].failure[1]) = Some(404)
           \/ /\ calls[c].method = "getLinkedRichMenu"
              /\ Status(calls[c].failure[1]) = Undefined
              /\ _accessToken = "tokenB"

\* '- <property>: <message>' lines for the details, last detail last
RECURSIVE DetailLines(_)
DetailLines(details) ==
    IF Len(details) = 0 THEN ""
    ELSE DetailLines(SubSeq(details, 1, Len(details) - 1))
         \o "\n- " \o details[Len(details)].property[1]
         \o ": " \o details[Len(details)].message[1]

C9_UploadPreflight ==
    \A c \in DOMAIN calls :
        (calls[c].pc # "idle" /\ calls[c].method = "uploadRichMenuImage")
        =>
            LET call == calls[c]
                image == call.args[2]
            IN  IF image \in {"PNG-bytes", "JPEG-bytes"}
                THEN /\ call.request # Undefined
                     /\ call.request[1].method = "post"
                     /\ call.request[1].url =
                            "/v2/bot/richmenu/" \o call.args[1] \o "/content"
                     /\ call.request[1].headers["Content-Type"] =
                            (IF image = "PNG-bytes" THEN "image/png" ELSE "image/jpeg")
                     /\ call.request[1].data = Some(image)
                     /\ call.pc \in {"sent", "done"} => call.sent = <<call.request[1]>>
                     /\ call.pc \in {"intercept", "dispatch"} => call.sent = << >>
                ELSE /\ call.pc = "done"
                     /\ call.outcome[1].state = "thrown"
                     /\ call.request = Undefined
                     /\ call.sent = << >>
                     /\ call.observed = << >>

\* a PNG upload has been sent and answered
C9_Witness ==
    \E c \in DOMAIN calls :
        /\ calls[c].pc = "done"
        /\ calls[c].method = "uploadRichMenuImage"
        /\ calls[c].args[2] = "PNG-bytes"
        /\ Len(calls[c].sent) = 1
        /\ calls[c].sent[1].headers["Content-Type"] = "image/png"
        /\ calls[c].outcome[1].state = "fulfilled"

\* C10: on every endpoint method an accessToken option that is the empty
\* string takes precedence over the instance's token: the Authorization
\* header is 'Bearer ' followed by the empty string.
C10_EmptyOverrideTakesPrecedence ==
    \A c \in DOMAIN calls :
        (HasRequest(c) /\ calls[c].options.accessToken = Some(""))
        => Authorization(c) = "Bearer "

\* C11: no step of any call, successful or failing, with or without an
\* override, with other calls in progress or not, changes the instance: the
\* stored access token, the channel secret, the request observer and the
\* defaults of the axios instance (its Authorization header among them) stay
\* as the constructor set them, so a request built without an override
\* carries 'Bearer ' and the token the instance held before the step.
C11_ConfigurationIsFrozen ==
    [][/\ instance' = instance
       /\ _axios'.defaults.headers["Authorization"] = "Bearer " \o _accessToken
       /\ \A c \in DOMAIN calls :
              (HasRequest(c)' /\ calls'[c].options.accessToken = Undefined)
                  => Authorization(c)' = "Bearer " \o _accessToken]_vars

\* a call with an override other than the instance's token has succeeded,
\* another has failed, and a call without an override is on the wire with
\* the instance's token, on an instance built with its own observer
C11_Witness ==
    \E c, d \in DOMAIN calls :
        /\ c # d
        /\ calls[c].pc = "done"
        /\ Truthy(calls[c].options.accessToken)
        /\ calls[c].options.accessToken[1] # _accessToken
        /\ calls[c].outcome[1].state = "fulfilled"
        /\ calls[c].method = "pushRawBody"
        /\ calls[d].pc = "sent"
        /\ calls[d].options.accessToken = Undefined
        /\ Authorization(d) = "Bearer " \o _accessToken
        /\ calls[d].observed[1].observer = "customObserver"
        /\ _onRequest = "customObserver"
        /\ _axios.defaults.headers["Authorization"] = "Bearer " \o _accessToken

\* the send methods: the three modes and the dispatcher
SendMethods == {"reply", "push", "multicast", "_send"}

\* where a send call stands: the observer has been given the request once
\* before the request goes out, one request goes out, and the call ends in
\* one outcome
SendCallInOrder(call) ==
    LET request == call.request[1]
        observedOnce ==
            call.observed = <<[observer |-> _onRequest,
                               argument |-> OnRequestArgument(request)]>>
    IN  /\ call.request # Undefined
        /\ call.pc = "intercept" =>
              call.observed = << >> /\ call.sent = << >> /\ call.outcome = Undefined
        /\ call.pc = "dispatch" =>
              observedOnce /\ call.sent = << >> /\ call.outcome = Undefined
        /\ call.pc = "sent" =>
              observedOnce /\ call.sent = <<request>> /\ call.outcome = Undefined
        /\ call.pc = "done" =>
              /\ observedOnce
              /\ call.sent = <<request>>
              /\ call.outcome # Undefined
              /\ IF call.failure = Undefined
                 THEN call.outcome[1].state = "fulfilled"
                 ELSE /\ call.outcome[1].state = "rejected"
                      /\ call.outcome[1].reason.name = "AxiosError"

\* C12: a call of reply, push or multicast, made directly or through _send,
\* gives the request observer the request once, then sends that one request,
\* then ends in one outcome: the response data, or one raised error.  A call
\* that has its outcome, a failure included, sends nothing more.
C12_OneRequestOneOutcome ==
    /\ [](\A c \in DOMAIN calls :
            (calls[c].pc # "idle" /\ calls[c].method \in SendMethods)
                => SendCallInOrder(calls[c]))
    /\ [][\A c \in DOMAIN calls :
            (calls[c].pc = "done" /\ calls[c].method \in SendMethods)
                => \/ calls'[c] = calls[c]
                   \/ calls'[c] = Idle]_vars

\* a push made through _send has failed on the transport after one request
C12_Witness ==
    \E c \in DOMAIN calls :
        /\ calls[c].pc = "done"
        /\ calls[c].method = "_send"
        /\ calls[c].args[1] = Some("push")
        /\ calls[c].failure = Some(TransportFailure("Network Error"))
        /\ Len(calls[c].sent) = 1
        /\ Len(calls[c].observed) = 1
        /\ calls[c].outcome[1].state = "rejected"

\* whether a message starts with the prefix of an API error
HasPrefix(message) ==
    Len(message) >= Len("LINE API - ")
    /\ SubSeq(message, 1, Len("LINE API - ")) = "LINE API - "

\* C13: when the failure of a request carries no response body (no response
\* was received, or the response has no data or empty data), the error the
\* call raises has the failure's own message, without the 'LINE API - '
\* prefix, and carries the failure.  In getUserProfile, whose chain
\* normalises twice, the raised error carries the first normalised error,
\* which carries the failure.
C13_TransportFailureKeepsRawMessage ==
    \A c \in DOMAIN calls :
        (calls[c].pc = "done" /\ calls[c].failure # Undefined
         /\ calls[c].outcome[1].state = "rejected"
         /\ (calls[c].failure[1].response = Undefined
             \/ calls[c].failure[1].response[1].data = Undefined
             \/ calls[c].failure[1].response[1].data = Some(EmptyString)))
        =>
            LET err == calls[c].failure[1]
                raised == calls[c].outcome[1].reason
            IN  /\ raised.name = "AxiosError"
                /\ raised.message = err.message
                /\ ~HasPrefix(raised.message)
                /\ IF calls[c].pending.chain = ThenHandleErrorCatch
                   THEN raised.original.original = err
                   ELSE raised.original = err

\* a timeout has been raised to the caller of a softened lookup, and a
\* network error to the caller of push
C13_Witness ==
    \E c \in DOMAIN calls :
        /\ calls[c].pc = "done"
        /\ calls[c].outcome[1].state = "rejected"
        /\ \/ /\ calls[c].method = "getRichMenu"
              /\ calls[c].failure = Some(TransportFailure("timeout of 1000ms exceeded"))
              /\ calls[c].outcome[1].reason.message = "timeout of 1000ms exceeded"
              /\ _accessToken = "tokenA"
           \/ /\ calls[c].method = "push"
              /\ calls[c].failure = Some(TransportFailure("Network Error"))
              /\ calls[c].outcome[1].reason.message = "Network Error"
              /\ _accessToken = "tokenB"

\* where an accumulation stands with respect to the pages it has been served
PageLoopInStep(call) ==
    LET N == Len(call.pages)
        cursorUrl(k) == MemberIdsPath(call) \o "?start=" \o call.pages[k].next[1]
    IN  /\ \A k \in 1..(N - 1) : Truthy(call.pages[k].next)
        /\ \A k \in 1..N :
              Truthy(call.pages[k].next) =>
                  IF k < Len(call.sent)
                  THEN call.sent[k + 1].url = cursorUrl(k)
                  ELSE /\ k = N
                       /\ call.pc \in {"intercept", "dispatch"}
                       /\ call.request[1].url = cursorUrl(k)
        /\ (N >= 1 /\ ~Truthy(call.pages[N].next)) =>
              /\ call.pc = "done"
              /\ Len(call.sent) = N
              /\ call.outcome[1].state = "fulfilled"
        /\ (call.pc = "done" /\ call.failure = Undefined) =>
              N >= 1 /\ ~Truthy(call.pages[N].next)

AccumulationInProgress ==
    \E c \in DOMAIN calls :
        calls[c].pc \in {"intercept", "dispatch", "sent"}
        /\ calls[c].method \in AccumulatingMethods

AccumulationDone ==
    \E c \in DOMAIN calls :
        calls[c].pc = "done" /\ calls[c].method \in AccumulatingMethods

\* C14 (as the code has it): the accumulation loop stops at the first
\* fetched page whose next cursor is undefined, absent or the empty string:
\* every page that carries a non-empty next causes one more fetch with that
\* value as the start parameter, a page whose next is missing or empty ends
\* the call with what has been collected, and on every finite page chain the
\* call completes.
C14_LoopStopsAtFirstFalsyNext ==
    /\ [](\A c \in DOMAIN calls :
            (calls[c].pc # "idle" /\ calls[c].method \in AccumulatingMethods)
                => PageLoopInStep(calls[c]))
    /\ (AccumulationInProgress ~> AccumulationDone)

\* an accumulation has ended on a second page whose next is the empty string
C14_Witness ==
    \E c \in DOMAIN calls :
        /\ calls[c].pc = "done"
        /\ calls[c].method \in AccumulatingMethods
        /\ Len(calls[c].pages) = 2
        /\ calls[c].pages[1].next = Some("tok1")
        /\ calls[c].pages[2].next = Some("")
        /\ Len(calls[c].sent) = 2
        /\ calls[c].outcome[1].state = "fulfilled"

\* C14 as stated: the loop stops only at a page whose next is undefined;
\* every page that carries a defined next causes one more fetch.
C14_StopsOnlyAtUndefinedNext ==
    \A c \in DOMAIN calls :
        (calls[c].pc = "done" /\ calls[c].method \in AccumulatingMethods
         /\ calls[c].failure = Undefined)
        => \A k \in 1..Len(calls[c].pages) :
              calls[c].pages[k].next # Undefined => k < Len(calls[c].sent)

\* the page fetches of an accumulation that have been answered, by a page or
\* by a failure
Answered(call) ==
    Len(call.pages) + (IF call.failure = Undefined THEN 0 ELSE 1)

\* C15: within one accumulation the page fetches are strictly sequential.
\* At most one of its requests is unanswered at any time, and a request goes
\* out only when every earlier one has been answered with a page and the
\* member ids of those pages have been appended to the list.
C15_PageFetchesAreSequential ==
    /\ [](\A c \in DOMAIN calls :
            (calls[c].pc # "idle" /\ calls[c].method \in AccumulatingMethods)
            =>
                LET call == calls[c]
                    unanswered == Len(call.sent) - Answered(call)
                IN  /\ unanswered \in {0, 1}
                    /\ unanswered = 1 <=> call.pc = "sent"
                    /\ call.allMemberIds = ConcatMemberIds(call.pages))
    /\ [][\A c \in DOMAIN calls :
            (/\ calls[c].pc # "idle" /\ calls'[c].pc # "idle"
             /\ calls[c].method \in AccumulatingMethods
             /\ Len(calls'[c].sent) > Len(calls[c].sent))
            =>
                LET call == calls[c]
                    k == Len(call.sent)
                IN  /\ Len(calls'[c].sent) = k + 1
                    /\ call.failure = Undefined
                    /\ Len(call.pages) = k
                    /\ call.allMemberIds = ConcatMemberIds(call.pages)
                    /\ k >= 1 =>
                          calls'[c].sent[k + 1].url =
                              MemberIdsPath(call) \o "?start="
                                  \o call.pages[k].next[1]]_vars

\* the third page request is on the wire, after two pages with member ids
\* have been received and appended
C15_Witness ==
    \E c \in DOMAIN calls :
        /\ calls[c].pc = "sent"
        /\ calls[c].method = "getAllRoomMemberIds"
        /\ Len(calls[c].sent) = 3
        /\ Len(calls[c].pages) = 2
        /\ calls[c].allMemberIds = <<"u2", "u1", "u1">>
        /\ calls[c].sent[3].url = "/v2/bot/room/id1/members/ids?start=tok2"

\* the mode and the message kind an adapter is named after
ModeOf(method) ==
    IF SubSeq(method, 1, 5) = "reply" THEN "reply"
    ELSE IF SubSeq(method, 1, 4) = "push" THEN "push"
    ELSE "multicast"
KindOf(method) == SubSeq(method, Len(ModeOf(method)) + 1, Len(method))
BuilderOf(kind) ==
    "create" \o (IF kind = "ButtonsTemplate" THEN "ButtonTemplate" ELSE kind)
AdapterMethods ==
    {mode \o kind :
        mode \in Modes,
        kind \in SimpleKinds \cup AltTextKinds \cup ButtonKinds
                 \cup {"Imagemap", "ConfirmTemplate", "CarouselTemplate"}}
\* the options an adapter was called with, an omitted object read as empty
GivenOptions(call) ==
    IF KindOf(call.method) = "CarouselTemplate"
    THEN OrEmptyCarousel(call.options)
    ELSE OrEmpty(call.options)

\* C16: every message adapter issues one POST to the endpoint of the mode in
\* its name, with its target as replyToken (reply) or to (push, multicast)
\* and a messages list of one element, the message the builder of its kind
\* returns for the content and the caller's options; the accessToken of the
\* caller's options, when there is one, is the token of the request.
C16_AdaptersSendOneBuiltMessage ==
    \A c \in DOMAIN calls :
        (calls[c].pc # "idle" /\ calls[c].method \in AdapterMethods)
        =>
            LET call == calls[c]
                mode == ModeOf(call.method)
                given == GivenOptions(call)
                request == call.request[1]
                body == request.data[1]
            IN  /\ request.method = "post"
                /\ request.url = "/v2/bot/message/" \o mode
                /\ Len(body.messages) = 1
                /\ body.messages[1] =
                      Built(BuilderOf(KindOf(call.method)),
                            Tail(call.args) \o <<given>>)
                /\ IF mode = "reply"
                   THEN body.replyToken = call.args[1]
                   ELSE body.to = call.args[1]
                /\ request.headers["Authorization"] =
                      (IF given.accessToken = Undefined
                       THEN "Bearer " \o _accessToken
                       ELSE "Bearer " \o given.accessToken[1])
                /\ call.pc \in {"sent", "done"} => call.sent = <<request>>
                /\ call.pc \in {"intercept", "dispatch"} => call.sent = << >>

\* a carousel has been multicast with an override and an image aspect
\* ratio, and a text has been replied without options
C16_Witness ==
    \E c \in DOMAIN calls :
        /\ calls[c].pc = "done"
        /\ Len(calls[c].sent) = 1
        /\ \/ /\ calls[c].method = "multicastCarouselTemplate"
              /\ calls[c].options # Undefined
              /\ calls[c].options[1].accessToken = Some("tokenB")
              /\ calls[c].options[1].imageAspectRatio = Some("square")
              /\ _accessToken = "tokenA"
              /\ calls[c].sent[1].url = "/v2/bot/message/multicast"
              /\ calls[c].sent[1].headers["Authorization"] = "Bearer tokenB"
              /\ calls[c].sent[1].data[1].messages[1].builder = "createCarouselTemplate"
           \/ /\ calls[c].method = "replyText"
              /\ calls[c].options = Undefined
              /\ _accessToken = "tokenB"
              /\ calls[c].sent[1].url = "/v2/bot/message/reply"
              /\ calls[c].sent[1].data[1].messages[1].builder = "createText"

\* C17: every request of retrieveMessageContent is a GET to
\* /v2/bot/message/{messageId}/content that asks for a binary response
\* (responseType 'arraybuffer'), whether the call has an accessToken option
\* or not.
C17_ContentIsRequestedAsBinary ==
    \A c \in DOMAIN calls :
        (calls[c].pc # "idle" /\ calls[c].method = "retrieveMessageContent")
        =>
            LET request == calls[c].request[1]
            IN  /\ request.method = "get"
                /\ request.url = "/v2/bot/message/" \o calls[c].args[1] \o "/content"
                /\ request.responseType = Some("arraybuffer")

\* C18: _send routes by exclusion.  The tag 'push' goes to the push endpoint
\* and 'multicast' to the multicast endpoint; any other tag ('reply', a
\* misspelt tag, undefined) goes to the reply endpoint with the target as
\* replyToken.  No tag makes _send fail before it has built its request.
C18_SendRoutesByExclusion ==
    \A c \in DOMAIN calls :
        (calls[c].pc # "idle" /\ calls[c].method = "_send")
        =>
            LET call == calls[c]
                type == call.args[1]
                target == call.args[2]
                messages == call.args[3]
            IN  /\ call.pending.thrown = Undefined
                /\ call.request # Undefined
                /\ call.request[1].method = "post"
                /\ call.request[1].url =
                      (IF type = Some("push") THEN "/v2/bot/message/push"
                       ELSE IF type = Some("multicast")
                            THEN "/v2/bot/message/multicast"
                       ELSE "/v2/bot/message/reply")
                /\ call.request[1].data =
                      (IF type \in {Some("push"), Some("multicast")}
                       THEN Some([to |-> target, messages |-> messages])
                       ELSE Some([replyToken |-> target, messages |-> messages]))
                /\ call.pc = "done" => call.outcome[1].state # "thrown"

\* a message sent with a misspelt tag, and one sent with no tag, have gone
\* to the reply endpoint with the target as replyToken
C18_Witness ==
    \E c \in DOMAIN calls :
        /\ calls[c].pc = "sent"
        /\ calls[c].method = "_send"
        /\ calls[c].sent[1].url = "/v2/bot/message/reply"
        /\ calls[c].sent[1].data[1].replyToken = calls[c].args[2]
        /\ calls[c].sent[1].data[1].messages = <<"msg1">>
        /\ \/ calls[c].args[1] = Some("replay") /\ _accessToken = "tokenA"
           \/ calls[c].args[1] = Undefined /\ _accessToken = "tokenB"

\* the Authorization header a page request carries for the call's options
PageAuthorization(call) ==
    IF call.options.accessToken = Undefined
    THEN "Bearer " \o _accessToken
    ELSE "Bearer " \o call.options.accessToken[1]

\* C19: every page request of an accumulation, the first and each later
\* one, carries the Authorization header of the call's options: 'Bearer '
\* and the override when the call has an accessToken option, 'Bearer ' and
\* the instance's token when it has none.
C19_EveryPageCarriesTheOptions ==
    \A c \in DOMAIN calls :
        (calls[c].pc # "idle" /\ calls[c].method \in AccumulatingMethods)
        =>
            LET call == calls[c]
            IN  /\ \A k \in 1..Len(call.sent) :
                      call.sent[k].headers["Authorization"] = PageAuthorization(call)
                /\ \A k \in 1..Len(call.observed) :
                      call.observed[k].argument.headers["Authorization"] =
                          PageAuthorization(call)
                /\ call.request[1].headers["Authorization"] = PageAuthorization(call)

\* the third page request of a call with an override has gone out with the
\* override, on an instance that holds another token
C19_Witness ==
    \E c \in DOMAIN calls :
        /\ calls[c].pc = "sent"
        /\ calls[c].method = "getAllGroupMemberIds"
        /\ calls[c].options.accessToken = Some("tokenB")
        /\ _accessToken = "tokenA"
        /\ Len(calls[c].sent) = 3
        /\ calls[c].sent[1].headers["Authorization"] = "Bearer tokenB"
        /\ calls[c].sent[3].headers["Authorization"] = "Bearer tokenB"

\* C20: in getUserProfile a failure passes through handleError twice, and
\* the caller sees what one pass would give.  A 404 is still recognised
\* after the first pass and the call resolves with null; any other failure
\* rejects with the error of the second pass, whose message is the message
\* of a single pass: one prefix, each detail line once.
C20_NormalisingTwiceIsNormalisingOnce ==
    \A c \in DOMAIN calls :
        (calls[c].pc = "done" /\ calls[c].method = "getUserProfile"
         /\ calls[c].failure # Undefined)
        =>
            LET err == calls[c].failure[1]
                once == handleError(err)
                outcome == calls[c].outcome[1]
            IN  IF Status(err) = Some(404)
                THEN outcome = Fulfilled(Null)
                ELSE /\ outcome = Rejected(handleError(once))
                     /\ outcome.reason.message = once.message
                     /\ outcome.reason.response = err.response
                     /\ ~HasPrefix(SubSeq(outcome.reason.message,
                                          Len("LINE API - ") + 1,
                                          Len(outcome.reason.message)))

\* getUserProfile has rejected on a 400 whose body has a message and a
\* detail, with the prefix and the detail line once
C20_Witness ==
    \E c \in DOMAIN calls :
        /\ calls[c].pc = "done"
        /\ calls[c].method = "getUserProfile"
        /\ calls[c].failure # Undefined
        /\ Status(calls[c].failure[1]) = Some(400)
        /\ calls[c].outcome[1].state = "rejected"
        /\ calls[c].outcome[1].reason.message =
              "LINE API - The request body has 1 error(s)\n- to: invalid"
        /\ calls[c].outcome[1].reason.original.name = "AxiosError"

\* whether the failure has a response whose data is there and not empty
HasStructuredBody(err) ==
    /\ err.response # Undefined
    /\ err.response[1].data # Undefined
    /\ err.response[1].data[1] # EmptyString

\* C21: handleError takes the structured branch for every failure whose
\* response has non-empty data, with or without a message field: the raised
\* message starts with 'LINE API - ', and for data without a message it is
\* 'LINE API - undefined' followed by the detail lines.  The failure's own
\* message is raised only when the response, or its data, is missing or
\* empty.
C21_StructuredBranchWithoutMessage ==
    \A c \in DOMAIN calls :
        (calls[c].pc = "done" /\ calls[c].failure # Undefined
         /\ calls[c].outcome[1].state = "rejected")
        =>
            LET err == calls[c].failure[1]
                raised == calls[c].outcome[1].reason
            IN  IF HasStructuredBody(err)
                THEN LET data == err.response[1].data[1]
                     IN  /\ HasPrefix(raised.message)
                         /\ raised.message # err.message
                         /\ data.message = Undefined =>
                               raised.message =
                                   "LINE API - undefined"
                                   \o (IF data.details = Undefined THEN ""
                                       ELSE DetailLines(data.details[1]))
                ELSE /\ raised.message = err.message
                     /\ ~HasPrefix(raised.message)

\* a 400 whose body has a detail and no message has been raised under the
\* prefix, and a 400 with an empty body under the failure's own message
C21_Witness ==
    \E c \in DOMAIN calls :
        /\ calls[c].pc = "done"
        /\ calls[c].failure # Undefined
        /\ Status(calls[c].failure[1]) = Some(400)
        /\ calls[c].outcome[1].state = "rejected"
        /\ \/ /\ calls[c].outcome[1].reason.message =
                    "LINE API - undefined\n- to: invalid"
              /\ _accessToken = "tokenA"
           \/ /\ calls[c].failure[1].response[1].data = Some(EmptyString)
              /\ calls[c].outcome[1].reason.message =
                    "Request failed with status code 400"
              /\ _accessToken = "tokenB"

====
